---------------------------- MODULE Spec2Model ----------------------------
(***************************************************************************)
(* Agentic tool-use loops of the repository:                               *)
(*   call_claude_with_tools / execute_tool       (src/tools.py)            *)
(*   find_references / process_tool_call         (src/component_level_eval.py) *)
(*   market_research_agent                       (src/multi_agentic/campaign_pipeline.py) *)
(*   handle_tool_call_claude, tavily_search_tool (src/multi_agentic/tools.py) *)
(*                                                                         *)
(* Python strings are sequences of tokens, so that f-strings and += are    *)
(* sequence concatenation; "" is << >>.                                    *)
(***************************************************************************)
EXTENDS Integers, Sequences, FiniteSets, TLC

(* ------------------------------ bounds --------------------------------- *)
\* largest max_iterations argument passed to call_claude_with_tools
MaxK == 3
\* number of leading model calls of a run answered from the full response
\* menu (and whose tools meet every environment); later calls are answered
\* from the two-element menu and their tools return normally
MaxRich == 2

(* ------------------------- program constants --------------------------- *)
FR_max_iterations == 5
MRA_max_iterations == 10

(* --------------------------- Python values ----------------------------- *)
PyStr(s) == [ty |-> "str", s |-> s]
PyList(items) == [ty |-> "list", items |-> items]
PyDict1(k, v) == [ty |-> "dict", k |-> k, v |-> v]
PyObj == [ty |-> "object"]

isinstance_str(v) == v.ty = "str"

Ret(v) == [kind |-> "ret", val |-> v]
Raise(m) == [kind |-> "raise", msg |-> m]

\* what json.dumps accepts: str, list and dict of such; any other object
\* makes it raise TypeError
RECURSIVE Serializable(_)
Serializable(v) ==
    CASE v.ty = "str" -> TRUE
      [] v.ty = "list" -> \A i \in 1..Len(v.items) : Serializable(v.items[i])
      [] v.ty = "dict" -> Serializable(v.v)
      [] OTHER -> FALSE

RECURSIVE Encode(_)
RECURSIVE EncodeItems(_)
Encode(v) ==
    CASE v.ty = "str" -> <<"\"">> \o v.s \o <<"\"">>
      [] v.ty = "list" -> <<"[">> \o EncodeItems(v.items) \o <<"]">>
      [] v.ty = "dict" -> <<"{\"", v.k, "\": ">> \o Encode(v.v) \o <<"}">>
      [] OTHER -> << >>
EncodeItems(items) ==
    IF items = << >> THEN << >>
    ELSE IF Len(items) = 1 THEN Encode(items[1])
    ELSE Encode(items[1]) \o <<", ">> \o EncodeItems(Tail(items))

json_dumps(v) ==
    IF Serializable(v) THEN Ret(PyStr(Encode(v)))
    ELSE Raise(<<"Object is not JSON serializable">>)

(* ------------------------- tool implementations ------------------------ *)
\* env is what the world outside the process does when the tool runs:
\*   "ok_str"    the tool's external step succeeds (string result)
\*   "ok_struct" it succeeds with a structured result
\*   "ok_obj"    it succeeds with an object json cannot serialise
\*   "raise"     it raises (network, file system, library)
\*   "no_key"    TAVILY_API_KEY is not set
Envs == {"ok_str", "ok_struct", "ok_obj", "raise", "no_key"}

HasKey(d, key) == key \in DOMAIN d

get_current_time == PyStr(<<"HH:MM:SS">>)

get_weather_from_ip(env) ==
    IF env = "raise"
    THEN Ret(PyStr(<<"Could not fetch weather: ", "boom">>))
    ELSE Ret(PyStr(<<"Weather in ", "city", ": ", "Sunny +20C">>))

endswith_txt(filename) == Len(filename) > 0 /\ filename[Len(filename)] = ".txt"

write_txt_file(filename, content, env) ==
    LET fname == IF endswith_txt(filename) THEN filename
                 ELSE filename \o <<".txt">>
    IN IF env = "raise" THEN Raise(<<"[Errno 13] Permission denied">>)
       ELSE Ret(PyStr(<<"Successfully wrote content to ">> \o fname))

generate_qr_code(data, filename, image_path, env) ==
    IF env = "raise" THEN Raise(<<"[Errno 2] No such file or directory">>)
    ELSE Ret(PyStr(<<"QR code saved as ">> \o filename \o <<".png">>
                   \o <<" containing: ">> \o data \o <<"...">>))

KeyError(key) == Raise(<<"'", key, "'">>)

\* variant: the unknown name is looked up in a table (tools_map[name])
execute_tool_unknown_Mut(tool_name) == KeyError(tool_name)

execute_tool_unknown(tool_name) == Ret(PyStr(<<"Unknown tool: ", tool_name>>))

execute_tool(tool_name, tool_input, env) ==
    IF tool_name = "get_current_time" THEN Ret(get_current_time)
    ELSE IF tool_name = "get_weather_from_ip" THEN get_weather_from_ip(env)
    ELSE IF tool_name = "write_txt_file" THEN
        IF ~HasKey(tool_input, "filename") THEN KeyError("filename")
        ELSE IF ~HasKey(tool_input, "content") THEN KeyError("content")
        ELSE write_txt_file(tool_input["filename"], tool_input["content"], env)
    ELSE IF tool_name = "generate_qr_code" THEN
        IF ~HasKey(tool_input, "data") THEN KeyError("data")
        ELSE IF ~HasKey(tool_input, "filename") THEN KeyError("filename")
        ELSE IF ~HasKey(tool_input, "image_path") THEN KeyError("image_path")
        ELSE generate_qr_code(tool_input["data"], tool_input["filename"],
                              tool_input["image_path"], env)
    ELSE execute_tool_unknown(tool_name)

\* research_tools.<tool>(**tool_input): the module is imported, not defined,
\* by component_level_eval.py; every outcome a Python call can have is allowed
research_tool(tool_input, env) ==
    CASE env = "ok_str" -> Ret(PyStr(<<"summary ", "https://arxiv.org/abs/1">>))
      [] env = "ok_struct" ->
            Ret(PyList(<<PyDict1("url", PyStr(<<"https://arxiv.org/abs/1">>))>>))
      [] env = "ok_obj" -> Ret(PyList(<<PyObj>>))
      [] OTHER -> Raise(<<"boom">>)

\* variant: the except clause re-raises
process_tool_call_except_Mut(tool_name, e) == Raise(e.msg)

process_tool_call_except(tool_name, e) ==
    Ret(PyStr(<<"Tool error (", tool_name, "): ">> \o e.msg))

process_tool_call(tool_name, tool_input, env) ==
    LET result ==
            IF tool_name = "arxiv_search" THEN research_tool(tool_input, env)
            ELSE IF tool_name = "tavily_search" THEN research_tool(tool_input, env)
            ELSE IF tool_name = "wikipedia_search" THEN research_tool(tool_input, env)
            ELSE Ret(PyStr(<<"Unknown tool: ", tool_name>>))
    IN IF result.kind = "raise" THEN process_tool_call_except(tool_name, result)
       ELSE IF isinstance_str(result.val) THEN Ret(result.val)
       ELSE LET dumped == json_dumps(result.val)
            IN IF dumped.kind = "raise"
               THEN process_tool_call_except(tool_name, dumped)
               ELSE dumped

\* tavily_search_tool(query, max_results=5, include_images=False)
tavily_search_tool(tool_input, env) ==
    IF ~HasKey(tool_input, "query")
    THEN Raise(<<"tavily_search_tool() missing 1 required positional argument: 'query'">>)
    ELSE IF DOMAIN tool_input \subseteq {"query", "max_results", "include_images"}
    THEN IF env = "no_key"
         THEN Raise(<<"TAVILY_API_KEY not found in environment variables.">>)
         ELSE IF env = "raise"
         THEN Ret(PyList(<<PyDict1("error", PyStr(<<"boom">>))>>))
         ELSE Ret(PyList(<<PyDict1("url", PyStr(<<"https://example.com">>))>>))
    ELSE Raise(<<"tavily_search_tool() got an unexpected keyword argument">>)

product_catalog_tool ==
    PyDict1("source", PyStr(<<"Internal Product Catalog">>))

handle_tool_call_claude(tool_name, tool_input, env) ==
    IF tool_name = "tavily_search_tool" THEN tavily_search_tool(tool_input, env)
    ELSE IF tool_name = "product_catalog_tool" THEN Ret(product_catalog_tool)
    ELSE Ret(PyDict1("error", PyStr(<<"Unknown tool: ", tool_name>>)))


\* str(tool_result): a str is itself; other values by their printed form
py_str(v) == IF isinstance_str(v) THEN v.s ELSE Encode(v)

(* ---------------------------- conversation ----------------------------- *)
TextBlock(t) == [type |-> "text", text |-> t]
ToolUseBlock(id, name, input) ==
    [type |-> "tool_use", id |-> id, name |-> name, input |-> input]

hasattr_text(block) == "text" \in DOMAIN block

\* variant: the result carries an is_error field
tool_result_dict_Mut(id, content) ==
    [type |-> "tool_result", tool_use_id |-> id, content |-> content,
     is_error |-> FALSE]

tool_result_dict(id, content) ==
    [type |-> "tool_result", tool_use_id |-> id, content |-> content]

Message(role, content) == [role |-> role, content |-> content]

Prompt == PyStr(<<"task">>)

VARIABLES
    fn,              \* which function this run is
    max_iterations,  \* its max_iterations
    return_messages, \* its return_messages argument
    messages,        \* the conversation
    iteration,       \* the iteration counter
    response,        \* the last response of the model endpoint
    pc,              \* position in the function
    tool_results,    \* the batch being collected (find_references, market_research_agent)
    idx,             \* index of the next content block to visit
    pending,         \* call_claude_with_tools: tool_use_block and tool_result
    result,          \* what the function returned or raised
    log,             \* history: one entry per model call
    nextId,          \* history: next identifier the endpoint hands out
    call,            \* a dispatcher call
    ret,             \* and its outcome
    dispatched,      \* history: ids of the tool_use blocks passed to the dispatcher
    pl,              \* run_sunglasses_campaign_pipeline: its locals and position
    rl               \* reflection_lab: module globals and the call in progress

vars == <<fn, max_iterations, return_messages, messages, iteration, response,
          pc, tool_results, idx, pending, result, log, nextId, call, ret,
          dispatched, pl, rl>>

NoResponse == [stop_reason |-> "none", content |-> << >>]
NoPending == [set |-> FALSE]
NoResult == [kind |-> "none"]
NoCall == [disp |-> "none"]
NoRet == [kind |-> "none"]
NoPipeline == [pc |-> "none"]
NoLab == [pc |-> "none"]

(* ------------------------- the model endpoint -------------------------- *)
NoInput == << >>
FileInput == [filename |-> <<"notes">>, content |-> <<"hi">>]
QueryInput == [query |-> <<"q">>]
ExtraInput == [query |-> <<"q">>, include_domains |-> <<"x">>]

Req(name, input) == [type |-> "tool_use", name |-> name, input |-> input]

\* a request every dispatcher of f serves without failing
SafeReq(f) ==
    CASE f = "call_claude_with_tools" -> Req("get_current_time", NoInput)
      [] f = "find_references" -> Req("wikipedia_search", QueryInput)
      [] f = "market_research_agent" -> Req("product_catalog_tool", NoInput)

\* requests whose tool can fail
RiskyReq(f) ==
    CASE f = "call_claude_with_tools" -> Req("write_txt_file", FileInput)
      [] f = "find_references" -> Req("arxiv_search", QueryInput)
      [] f = "market_research_agent" -> Req("tavily_search_tool", QueryInput)

BadInputReq(f) ==
    CASE f = "call_claude_with_tools" -> Req("write_txt_file", NoInput)
      [] f = "find_references" -> Req("tavily_search", NoInput)
      [] f = "market_research_agent" -> Req("tavily_search_tool", ExtraInput)

BogusReq == Req("bogus", NoInput)

\* the responses of the endpoint: stop reason and content blocks (the
\* identifiers are assigned when the response is produced)
RichMenu(f) ==
    << [stop_reason |-> "tool_use", content |-> <<BadInputReq(f)>>],
       [stop_reason |-> "tool_use", content |-> <<BogusReq>>],
       [stop_reason |-> "tool_use", content |-> <<TextBlock(<<"a">>), SafeReq(f), BogusReq>>],
       [stop_reason |-> "tool_use", content |-> <<BogusReq, TextBlock(<<"b">>), RiskyReq(f)>>],
       [stop_reason |-> "tool_use", content |-> <<RiskyReq(f), SafeReq(f)>>],
       [stop_reason |-> "tool_use", content |-> <<TextBlock(<<"a">>)>>],
       [stop_reason |-> "end_turn", content |-> <<TextBlock(<<"a">>)>>],
       [stop_reason |-> "end_turn",
        content |-> <<TextBlock(<<"[Model Error: ", "Connection error.", "]">>)>>],
       [stop_reason |-> "end_turn", content |-> <<TextBlock(<<"a">>), TextBlock(<<"b">>)>>],
       [stop_reason |-> "end_turn", content |-> << >>],
       [stop_reason |-> "max_tokens", content |-> <<TextBlock(<<"b">>), SafeReq(f), TextBlock(<<"a">>)>>] >>

PlainMenu(f) ==
    << [stop_reason |-> "tool_use", content |-> <<TextBlock(<<"a">>), SafeReq(f)>>],
       [stop_reason |-> "end_turn", content |-> <<TextBlock(<<"a">>)>>] >>

Menu(f) == IF Len(log) < MaxRich THEN RichMenu(f) ELSE PlainMenu(f)

ToolEnvs == IF Len(log) <= MaxRich THEN Envs ELSE {"ok_str"}

AssignIds(content, first) ==
    [i \in 1..Len(content) |->
        IF content[i].type = "tool_use"
        THEN ToolUseBlock(first + i - 1, content[i].name, content[i].input)
        ELSE content[i]]

IsToolUse(block) == block.type = "tool_use"

NumToolUse(content) == Cardinality({i \in 1..Len(content) : IsToolUse(content[i])})

LogEntry(r) == [stop |-> r.stop_reason, n |-> NumToolUse(r.content)]

\* client.messages.create(...) answering
Answered(r) ==
    /\ response' = [stop_reason |-> r.stop_reason,
                    content |-> AssignIds(r.content, nextId)]
    /\ nextId' = nextId + Len(r.content)
    /\ log' = Append(log, LogEntry(r))

\* client.messages.create(...) raising
Failed ==
    /\ response' = response
    /\ nextId' = nextId
    /\ log' = Append(log, [stop |-> "error", n |-> 0])

APIError == <<"Connection error.">>

(* ------------------------------ results -------------------------------- *)
ReturnPair(why, text, msgs) ==
    [kind |-> "ret", why |-> why, pair |-> TRUE, text |-> text, messages |-> msgs]
ReturnStr(why, text) ==
    [kind |-> "ret", why |-> why, pair |-> FALSE, text |-> text, messages |-> << >>]
Propagate(why, msg) ==
    [kind |-> "raise", why |-> why, pair |-> FALSE, text |-> msg, messages |-> << >>]

\* variant: final_text = block.text instead of final_text += block.text
RECURSIVE ExtractTextFrom_Mut(_, _, _)
ExtractTextFrom_Mut(content, i, acc) ==
    IF i > Len(content) THEN acc
    ELSE ExtractTextFrom_Mut(content, i + 1,
                             IF hasattr_text(content[i]) THEN content[i].text
                             ELSE acc)

\* final_text = ""; for block in response.content: if hasattr(block, "text"): final_text += block.text
RECURSIVE ExtractTextFrom(_, _, _)
ExtractTextFrom(content, i, acc) ==
    IF i > Len(content) THEN acc
    ELSE ExtractTextFrom(content, i + 1,
                         IF hasattr_text(content[i]) THEN acc \o content[i].text
                         ELSE acc)

ExtractText(content) == ExtractTextFrom(content, 1, << >>)

\* for block in response.content: if block.type == "tool_use": tool_use_block = block; break
FirstToolUse(content) ==
    IF \E i \in 1..Len(content) : IsToolUse(content[i])
    THEN LET i == CHOOSE i \in 1..Len(content) :
                    /\ IsToolUse(content[i])
                    /\ \A j \in 1..(i - 1) : ~IsToolUse(content[j])
         IN [found |-> TRUE, block |-> content[i]]
    ELSE [found |-> FALSE]

(* ------------------ call_claude_with_tools (src/tools.py) -------------- *)
IsCCT == fn = "call_claude_with_tools"

\* variant: while iteration <= max_iterations
CCT_Call_Mut ==
    /\ IsCCT /\ pc = "loop"
    /\ iteration <= max_iterations
    /\ iteration' = iteration + 1
    /\ \/ /\ \E i \in 1..Len(Menu(fn)) : Answered(Menu(fn)[i])
          /\ pc' = "response"
          /\ result' = result
       \/ /\ Failed
          /\ pc' = "raised"
          /\ result' = Propagate("model", APIError)
    /\ UNCHANGED <<fn, max_iterations, return_messages, messages, tool_results,
                   idx, pending, call, ret,
                   dispatched, pl, rl>>

CCT_Call ==
    /\ IsCCT /\ pc = "loop"
    /\ iteration < max_iterations
    /\ iteration' = iteration + 1
    /\ \/ /\ \E i \in 1..Len(Menu(fn)) : Answered(Menu(fn)[i])
          /\ pc' = "response"
          /\ result' = result
       \/ /\ Failed
          /\ pc' = "raised"
          /\ result' = Propagate("model", APIError)
    /\ UNCHANGED <<fn, max_iterations, return_messages, messages, tool_results,
                   idx, pending, call, ret,
                   dispatched, pl, rl>>

CCT_Execute ==
    /\ IsCCT /\ pc = "response"
    /\ response.stop_reason = "tool_use"
    /\ FirstToolUse(response.content).found
    /\ LET tool_use_block == FirstToolUse(response.content).block
       IN \E env \in ToolEnvs :
            LET r == execute_tool(tool_use_block.name, tool_use_block.input, env)
            IN IF r.kind = "raise"
               THEN /\ pc' = "raised"
                    /\ result' = Propagate("tool", r.msg)
                    /\ pending' = pending
               ELSE /\ pc' = "append"
                    /\ result' = result
                    /\ pending' = [set |-> TRUE, tool_use_block |-> tool_use_block,
                                   tool_result |-> r.val]
    /\ dispatched' = Append(dispatched, FirstToolUse(response.content).block.id)
    /\ UNCHANGED <<fn, max_iterations, return_messages, messages, iteration,
                   response, tool_results, idx, log, nextId, call, ret, pl, rl>>

CCT_ToolResultTurn(tool_use_block, tool_result) ==
    Message("user", PyList(<<tool_result_dict(tool_use_block.id,
                                              PyStr(py_str(tool_result)))>>))

\* variant: only the tool-result turn is appended
CCT_Append_Mut ==
    /\ IsCCT /\ pc = "append"
    /\ messages' = Append(messages,
                          CCT_ToolResultTurn(pending.tool_use_block,
                                             pending.tool_result))
    /\ pending' = NoPending
    /\ pc' = "loop"
    /\ UNCHANGED <<fn, max_iterations, return_messages, iteration, response,
                   tool_results, idx, result, log, nextId, call, ret,
                   dispatched, pl, rl>>

CCT_Append ==
    /\ IsCCT /\ pc = "append"
    /\ messages' = Append(Append(messages,
                                 Message("assistant", PyList(response.content))),
                          CCT_ToolResultTurn(pending.tool_use_block,
                                             pending.tool_result))
    /\ pending' = NoPending
    /\ pc' = "loop"
    /\ UNCHANGED <<fn, max_iterations, return_messages, iteration, response,
                   tool_results, idx, result, log, nextId, call, ret,
                   dispatched, pl, rl>>

CCT_NoToolUseBlock ==
    /\ IsCCT /\ pc = "response"
    /\ response.stop_reason = "tool_use"
    /\ ~FirstToolUse(response.content).found
    /\ pc' = "loop"
    /\ UNCHANGED <<fn, max_iterations, return_messages, messages, iteration,
                   response, tool_results, idx, pending, result, log, nextId,
                   call, ret,
                   dispatched, pl, rl>>

\* variant: the final response is appended to messages before the return
CCT_Final_Mut ==
    /\ IsCCT /\ pc = "response"
    /\ response.stop_reason # "tool_use"
    /\ messages' = Append(messages, Message("assistant", PyList(response.content)))
    /\ result' = ReturnPair("final", ExtractText(response.content), messages')
    /\ pc' = "done"
    /\ UNCHANGED <<fn, max_iterations, return_messages, iteration,
                   response, tool_results, idx, pending, log, nextId, call, ret,
                   dispatched, pl, rl>>

CCT_Final ==
    /\ IsCCT /\ pc = "response"
    /\ response.stop_reason # "tool_use"
    /\ result' = ReturnPair("final", ExtractText(response.content), messages)
    /\ pc' = "done"
    /\ UNCHANGED <<fn, max_iterations, return_messages, messages, iteration,
                   response, tool_results, idx, pending, log, nextId, call, ret,
                   dispatched, pl, rl>>

CCT_MaxIterations ==
    /\ IsCCT /\ pc = "loop"
    /\ ~(iteration < max_iterations)
    /\ result' = ReturnPair("exhausted", <<"Max iterations reached">>, messages)
    /\ pc' = "done"
    /\ UNCHANGED <<fn, max_iterations, return_messages, messages, iteration,
                   response, tool_results, idx, pending, log, nextId, call, ret,
                   dispatched, pl, rl>>

(* ------------- find_references (src/component_level_eval.py) ----------- *)
IsFR == fn = "find_references"

FR_ModelError(msg) == ReturnStr("model_error", <<"[Model Error: ">> \o msg \o <<"]">>)

FR_FirstCall ==
    /\ IsFR /\ pc = "start"
    /\ \/ /\ \E i \in 1..Len(Menu(fn)) : Answered(Menu(fn)[i])
          /\ pc' = "while"
          /\ result' = result
       \/ /\ Failed
          /\ pc' = "done"
          /\ result' = FR_ModelError(APIError)
    /\ UNCHANGED <<fn, max_iterations, return_messages, messages, iteration,
                   tool_results, idx, pending, call, ret,
                   dispatched, pl, rl>>

\* variant: iteration <= max_iterations
FR_WhileCond_Mut == response.stop_reason = "tool_use" /\ iteration <= max_iterations

FR_WhileCond == response.stop_reason = "tool_use" /\ iteration < max_iterations

\* variant: the assistant turn is not appended before the tools run
FR_Enter_Mut ==
    /\ IsFR /\ pc = "while"
    /\ FR_WhileCond
    /\ iteration' = iteration + 1
    /\ tool_results' = << >>
    /\ idx' = 1
    /\ pc' = "blocks"
    /\ UNCHANGED <<fn, max_iterations, return_messages, messages, response,
                   pending, result, log, nextId, call, ret, dispatched, pl, rl>>

FR_Enter ==
    /\ IsFR /\ pc = "while"
    /\ FR_WhileCond
    /\ iteration' = iteration + 1
    /\ messages' = Append(messages, Message("assistant", PyList(response.content)))
    /\ tool_results' = << >>
    /\ idx' = 1
    /\ pc' = "blocks"
    /\ UNCHANGED <<fn, max_iterations, return_messages, response, pending,
                   result, log, nextId, call, ret,
                   dispatched, pl, rl>>

\* variant: the result carries the position of the block, not block.id
FR_ToolResult_Mut(block, env) ==
    tool_result_dict(idx, process_tool_call(block.name, block.input, env).val)

FR_ToolResult(block, env) ==
    tool_result_dict(block.id, process_tool_call(block.name, block.input, env).val)

FR_Block ==
    /\ IsFR /\ pc = "blocks"
    /\ idx <= Len(response.content)
    /\ LET block == response.content[idx]
       IN IF IsToolUse(block)
          THEN /\ \E env \in ToolEnvs :
                    tool_results' = Append(tool_results, FR_ToolResult(block, env))
               /\ dispatched' = Append(dispatched, block.id)
          ELSE /\ tool_results' = tool_results
               /\ dispatched' = dispatched
    /\ idx' = idx + 1
    /\ UNCHANGED <<fn, max_iterations, return_messages, messages, iteration,
                   response, pc, pending, result, log, nextId, call, ret, pl, rl>>

FR_AppendResults ==
    /\ IsFR /\ pc = "blocks"
    /\ idx > Len(response.content)
    /\ messages' = Append(messages, Message("user", PyList(tool_results)))
    /\ pc' = "next"
    /\ UNCHANGED <<fn, max_iterations, return_messages, iteration, response,
                   tool_results, idx, pending, result, log, nextId, call, ret,
                   dispatched, pl, rl>>

FR_NextCall ==
    /\ IsFR /\ pc = "next"
    /\ \/ /\ \E i \in 1..Len(Menu(fn)) : Answered(Menu(fn)[i])
          /\ pc' = "while"
          /\ result' = result
       \/ /\ Failed
          /\ pc' = "done"
          /\ result' = FR_ModelError(APIError)
    /\ UNCHANGED <<fn, max_iterations, return_messages, messages, iteration,
                   tool_results, idx, pending, call, ret,
                   dispatched, pl, rl>>

FR_Return ==
    /\ IsFR /\ pc = "while"
    /\ ~FR_WhileCond
    /\ LET content == ExtractText(response.content)
           why == IF response.stop_reason = "tool_use" THEN "exhausted" ELSE "final"
       IN result' = IF return_messages THEN ReturnPair(why, content, messages)
                    ELSE ReturnStr(why, content)
    /\ pc' = "done"
    /\ UNCHANGED <<fn, max_iterations, return_messages, messages, iteration,
                   response, tool_results, idx, pending, log, nextId, call, ret,
                   dispatched, pl, rl>>

(* ----- market_research_agent (src/multi_agentic/campaign_pipeline.py) --- *)
IsMRA == fn = "market_research_agent"

MRA_Call ==
    /\ IsMRA /\ pc = "loop"
    /\ iteration < max_iterations
    /\ iteration' = iteration + 1
    /\ \/ /\ \E i \in 1..Len(Menu(fn)) : Answered(Menu(fn)[i])
          /\ pc' = "response"
          /\ result' = result
       \/ /\ Failed
          /\ pc' = "raised"
          /\ result' = Propagate("model", APIError)
    /\ UNCHANGED <<fn, max_iterations, return_messages, messages, tool_results,
                   idx, pending, call, ret,
                   dispatched, pl, rl>>

MRA_Enter ==
    /\ IsMRA /\ pc = "response"
    /\ response.stop_reason = "tool_use"
    /\ messages' = Append(messages, Message("assistant", PyList(response.content)))
    /\ tool_results' = << >>
    /\ idx' = 1
    /\ pc' = "blocks"
    /\ UNCHANGED <<fn, max_iterations, return_messages, iteration, response,
                   pending, result, log, nextId, call, ret,
                   dispatched, pl, rl>>

\* variant: the result is stored as returned
MRA_Content_Mut(res) == Ret(res)

\* "content": json.dumps(result) if not isinstance(result, str) else result
MRA_Content(res) == IF ~isinstance_str(res) THEN json_dumps(res) ELSE Ret(res)

MRA_Block ==
    /\ IsMRA /\ pc = "blocks"
    /\ idx <= Len(response.content)
    /\ LET block == response.content[idx]
       IN IF IsToolUse(block)
          THEN /\ dispatched' = Append(dispatched, block.id)
               /\ \E env \in ToolEnvs :
                 LET r == handle_tool_call_claude(block.name, block.input, env)
                     c == IF r.kind = "raise" THEN r ELSE MRA_Content(r.val)
                 IN IF c.kind = "raise"
                    THEN /\ pc' = "raised"
                         /\ result' = Propagate("tool", c.msg)
                         /\ UNCHANGED <<tool_results, idx>>
                    ELSE /\ tool_results' =
                               Append(tool_results, tool_result_dict(block.id, c.val))
                         /\ idx' = idx + 1
                         /\ UNCHANGED <<pc, result>>
          ELSE /\ idx' = idx + 1
               /\ UNCHANGED <<tool_results, pc, result, dispatched>>
    /\ UNCHANGED <<fn, max_iterations, return_messages, messages, iteration,
                   response, pending, log, nextId, call, ret, pl, rl>>

\* variant: messages = [...] instead of messages.append(...)
MRA_AppendResults_Mut ==
    /\ IsMRA /\ pc = "blocks"
    /\ idx > Len(response.content)
    /\ messages' = <<Message("user", PyList(tool_results))>>
    /\ pc' = "loop"
    /\ UNCHANGED <<fn, max_iterations, return_messages, iteration, response,
                   tool_results, idx, pending, result, log, nextId, call, ret,
                   dispatched, pl, rl>>

MRA_AppendResults ==
    /\ IsMRA /\ pc = "blocks"
    /\ idx > Len(response.content)
    /\ messages' = Append(messages, Message("user", PyList(tool_results)))
    /\ pc' = "loop"
    /\ UNCHANGED <<fn, max_iterations, return_messages, iteration, response,
                   tool_results, idx, pending, result, log, nextId, call, ret,
                   dispatched, pl, rl>>

MRA_Final ==
    /\ IsMRA /\ pc = "response"
    /\ response.stop_reason # "tool_use"
    /\ LET final_content == ExtractText(response.content)
       IN result' = IF return_messages
                    THEN ReturnPair("final", final_content, messages)
                    ELSE ReturnStr("final", final_content)
    /\ pc' = "done"
    /\ UNCHANGED <<fn, max_iterations, return_messages, messages, iteration,
                   response, tool_results, idx, pending, log, nextId, call, ret,
                   dispatched, pl, rl>>

MRA_MaxIterations ==
    /\ IsMRA /\ pc = "loop"
    /\ ~(iteration < max_iterations)
    /\ result' = ReturnStr("exhausted", <<"[", "WARNING SIGN", " Max iterations reached]">>)
    /\ pc' = "done"
    /\ UNCHANGED <<fn, max_iterations, return_messages, messages, iteration,
                   response, tool_results, idx, pending, log, nextId, call, ret,
                   dispatched, pl, rl>>

(* --------------------------- the loops' runs --------------------------- *)
Init ==
    /\ fn \in {"call_claude_with_tools", "find_references", "market_research_agent"}
    /\ max_iterations \in
          CASE fn = "call_claude_with_tools" -> 0..MaxK
            [] fn = "find_references" -> {FR_max_iterations}
            [] fn = "market_research_agent" -> {MRA_max_iterations}
    /\ return_messages \in
          IF fn = "call_claude_with_tools" THEN {TRUE} ELSE BOOLEAN
    /\ messages = <<Message("user", Prompt)>>
    /\ iteration = 0
    /\ response = NoResponse
    /\ pc = IF fn = "find_references" THEN "start" ELSE "loop"
    /\ tool_results = << >>
    /\ idx = 1
    /\ pending = NoPending
    /\ result = NoResult
    /\ log = << >>
    /\ nextId = 1
    /\ call = NoCall
    /\ ret = NoRet
    /\ dispatched = << >>
    /\ pl = NoPipeline
    /\ rl = NoLab

Next ==
    \/ CCT_Call
    \/ CCT_Execute
    \/ CCT_Append
    \/ CCT_NoToolUseBlock
    \/ CCT_Final
    \/ CCT_MaxIterations
    \/ FR_FirstCall
    \/ FR_Enter
    \/ FR_Block
    \/ FR_AppendResults
    \/ FR_NextCall
    \/ FR_Return
    \/ MRA_Call
    \/ MRA_Enter
    \/ MRA_Block
    \/ MRA_AppendResults
    \/ MRA_Final
    \/ MRA_MaxIterations

Spec == Init /\ [][Next]_vars

(* ------------------- the dispatchers as pure functions ----------------- *)
\* variant: a tool is advertised that execute_tool does not serve
all_tools_Mut ==
    {"get_current_time", "get_weather_from_ip", "write_txt_file",
     "generate_qr_code", "bogus"}

\* the names of the tools in all_tools
all_tools ==
    {"get_current_time", "get_weather_from_ip", "write_txt_file", "generate_qr_code"}

\* the names of the tools in RESEARCH_TOOLS
RESEARCH_TOOLS == {"arxiv_search", "tavily_search", "wikipedia_search"}

\* the names of the tools get_available_tools_claude() returns
get_available_tools_claude == {"tavily_search_tool", "product_catalog_tool"}

\* the names of the tools get_available_tools() returns, with the
\* parameters their schemas declare
get_available_tools ==
    [tavily_search_tool |-> {"query", "max_results", "include_images"},
     product_catalog_tool |-> {"max_items"}]

\* the tools a loop passes to the model, by the dispatcher it uses
Advertised(d) ==
    CASE d = "execute_tool" -> all_tools
      [] d = "process_tool_call" -> RESEARCH_TOOLS
      [] d = "handle_tool_call_claude" -> get_available_tools_claude
      [] OTHER -> DOMAIN get_available_tools

\* product_catalog_tool(**arguments): when handle_tool_call runs, the name is
\* bound to the second definition, def product_catalog_tool() -> dict, which
\* replaced def product_catalog_tool(max_items=10)
product_catalog_tool_call(arguments) ==
    IF DOMAIN arguments = {}
    THEN Ret(product_catalog_tool)
    ELSE Raise(<<"product_catalog_tool() got an unexpected keyword argument">>)

\* tools_map[function_name](**arguments)
handle_tool_call(function_name, arguments, env) ==
    IF function_name = "tavily_search_tool" THEN tavily_search_tool(arguments, env)
    ELSE IF function_name = "product_catalog_tool" THEN product_catalog_tool_call(arguments)
    ELSE KeyError(function_name)

Dispatchers ==
    {"execute_tool", "process_tool_call", "handle_tool_call_claude", "handle_tool_call"}

ToolNames ==
    {"get_current_time", "get_weather_from_ip", "write_txt_file",
     "generate_qr_code", "arxiv_search", "tavily_search", "wikipedia_search",
     "tavily_search_tool", "product_catalog_tool", "bogus", ""}

ToolInputs == <<NoInput, FileInput, QueryInput, ExtraInput,
                [data |-> <<"u">>, filename |-> <<"qr">>, image_path |-> <<"p">>],
                [filename |-> <<"n", ".txt">>, content |-> << >>],
                [max_items |-> <<"3">>] >>

InitExec ==
    /\ fn = "none"
    /\ max_iterations = 0
    /\ return_messages = FALSE
    /\ messages = << >>
    /\ iteration = 0
    /\ response = NoResponse
    /\ pc = "dispatch"
    /\ tool_results = << >>
    /\ idx = 1
    /\ pending = NoPending
    /\ result = NoResult
    /\ log = << >>
    /\ nextId = 1
    /\ \E d \in Dispatchers, n \in ToolNames, i \in 1..Len(ToolInputs), e \in Envs :
          call = [disp |-> d, name |-> n, input |-> ToolInputs[i], env |-> e]
    /\ ret = NoRet
    /\ dispatched = << >>
    /\ pl = NoPipeline
    /\ rl = NoLab

Dispatch(d, outcome) ==
    /\ pc = "dispatch"
    /\ call.disp = d
    /\ ret' = outcome
    /\ pc' = "dispatched"
    /\ UNCHANGED <<fn, max_iterations, return_messages, messages, iteration,
                   response, tool_results, idx, pending, result, log, nextId, call,
                   dispatched, pl, rl>>

Exec_execute_tool ==
    Dispatch("execute_tool", execute_tool(call.name, call.input, call.env))

Exec_process_tool_call ==
    Dispatch("process_tool_call", process_tool_call(call.name, call.input, call.env))

Exec_handle_tool_call_claude ==
    Dispatch("handle_tool_call_claude",
             handle_tool_call_claude(call.name, call.input, call.env))

Exec_handle_tool_call ==
    Dispatch("handle_tool_call", handle_tool_call(call.name, call.input, call.env))

NextExec ==
    \/ Exec_execute_tool
    \/ Exec_process_tool_call
    \/ Exec_handle_tool_call_claude
    \/ Exec_handle_tool_call

SpecExec == InitExec /\ [][NextExec]_vars

(* --- run_sunglasses_campaign_pipeline (src/multi_agentic/campaign_pipeline.py) --- *)
PyNone == [ty |-> "NoneType"]

\* bool(s) of a str
Truthy(v) == v.ty = "str" /\ Len(v.s) > 0

\* d.get(k, default)
Get(d, k, default) == IF k \in DOMAIN d THEN d[k] ELSE default

\* response_text[:500]
PromptLimit == 500

\* response_text[:200]
QuoteLimit == 200

\* length of a short reply
ShortLen == 40

\* json.loads of the reply text: a dict, another JSON value, or JSONDecodeError
JsonObject(d) == [kind |-> "object", obj |-> d]
JsonScalar == [kind |-> "scalar"]
JsonInvalid == [kind |-> "invalid"]

\* a reply of the model: the concatenated text blocks, their length in
\* characters, and what json parsing makes of them
Reply(text, chars, json) ==
    [kind |-> "reply", text |-> text, chars |-> chars, json |-> json]

NoReply == [kind |-> "raise"]

EmptyDict == [k \in {} |-> PyNone]

DesignerReplies ==
    << Reply(<<"{image_prompt: p, caption: c}">>, ShortLen,
             JsonObject([image_prompt |-> PyStr(<<"p">>), caption |-> PyStr(<<"c">>)])),
       Reply(<<"{caption: c}">>, ShortLen, JsonObject([caption |-> PyStr(<<"c">>)])),
       Reply(<<"{}">>, ShortLen, JsonObject(EmptyDict)),
       Reply(<<"a sunny beach">>, ShortLen, JsonInvalid),
       Reply(<<"a very long brief">>, PromptLimit + 1, JsonInvalid),
       Reply(<< >>, 0, JsonInvalid),
       Reply(<<"42">>, ShortLen, JsonScalar),
       NoReply >>

CopyReplies ==
    << Reply(<<"{quote: q, justification: j}">>, ShortLen,
             JsonObject([quote |-> PyStr(<<"q">>), justification |-> PyStr(<<"j">>)])),
       Reply(<<"{}">>, ShortLen, JsonObject(EmptyDict)),
       Reply(<<"{quote: null}">>, ShortLen, JsonObject([quote |-> PyNone])),
       Reply(<<"See the summer.">>, ShortLen, JsonInvalid),
       Reply(<<"a very long quote">>, QuoteLimit + 1, JsonInvalid),
       Reply(<< >>, 0, JsonInvalid),
       Reply(<<"42">>, ShortLen, JsonScalar),
       NoReply >>

PackagingReplies ==
    << Reply(<<"Refined insights">>, ShortLen, JsonInvalid),
       Reply(<< >>, 0, JsonInvalid),
       NoReply >>

\* variant: the text is not cut
Slice_Mut(reply, n, mark) == PyStr(reply.text)

\* s[:n] of the reply text
Slice(reply, n, mark) ==
    IF reply.chars <= n THEN PyStr(reply.text) ELSE PyStr(reply.text \o <<mark>>)

AttributeError == <<"AttributeError">>

\* outcomes of images.generate / requests.get + Image.open / img.save
DalleOutcomes == {"ok", "generate raised", "download raised", "save raised"}

graphic_designer_agent(trend_insights, reply, openai_client, dalle) ==
    IF reply.kind = "raise" THEN Raise(APIError)
    ELSE IF reply.json.kind = "scalar" THEN Raise(AttributeError)
    ELSE LET parsed == reply.json.kind = "object"
             image_prompt == IF parsed
                             THEN Get(reply.json.obj, "image_prompt", PyStr(<< >>))
                             ELSE Slice(reply, PromptLimit, "[:500]")
             caption == IF parsed
                        THEN Get(reply.json.obj, "caption", PyStr(<< >>))
                        ELSE PyStr(<<"Experience the trend.">>)
         IN IF openai_client
            THEN IF dalle = "ok"
                 THEN Ret([image_url |-> PyStr(<<"https://image">>),
                           image_path |-> PyStr(<<"campaign_image_", "timestamp", ".png">>),
                           prompt |-> image_prompt,
                           caption |-> caption])
                 ELSE Ret([error |-> PyStr(<<dalle>>),
                           prompt |-> image_prompt,
                           caption |-> caption])
            ELSE Ret([error |-> PyStr(<<"OpenAI client not available">>),
                      prompt |-> image_prompt,
                      caption |-> caption])

copywriter_agent(image_path, trend_summary, readable, reply) ==
    IF ~readable
    THEN Ret([error |-> PyStr(<<"Failed to read image: ", "OSError">>),
              quote |-> PyStr(<<"Unavailable">>),
              justification |-> PyStr(<<"Image could not be processed">>)])
    ELSE IF reply.kind = "raise" THEN Raise(APIError)
    ELSE IF reply.json.kind = "scalar" THEN Raise(AttributeError)
    ELSE IF reply.json.kind = "object"
    THEN Ret([quote |-> Get(reply.json.obj, "quote",
                            PyStr(<<"Experience the moment.">>)),
              justification |-> Get(reply.json.obj, "justification",
                            PyStr(<<"This quote captures the essence of the campaign.">>))])
    ELSE Ret([quote |-> IF reply.chars > 0
                        THEN Slice(reply, QuoteLimit, "[:200]")
                        ELSE PyStr(<<"Experience the moment.">>),
              justification |-> PyStr(<<"Generated from campaign analysis.">>)])

packaging_agent(trend_summary, image_url, quote, justification, output_path, reply, writable) ==
    IF reply.kind = "raise" THEN Raise(APIError)
    ELSE IF quote.ty # "str" \/ justification.ty # "str" THEN Raise(AttributeError)
    ELSE IF ~writable THEN Raise(<<"OSError">>)
    ELSE Ret(output_path)

OutputPaths == {PyNone, PyStr(<<"report.md">>)}

\* if output_path is None: output_path = f"campaign_summary_{...}.md"
ResolveOutputPath(output_path) ==
    IF output_path = PyNone
    THEN PyStr(<<"campaign_summary_", "timestamp", ".md">>)
    ELSE output_path

PipelineFrame ==
    UNCHANGED <<fn, max_iterations, return_messages, messages, iteration,
                response, pc, tool_results, idx, pending, result, log, nextId,
                call, ret, dispatched, rl>>

\* the locals of market_research_agent, and the record of its run, end with
\* the call; the pipeline keeps only what the agent returned or raised
AgentFrameDiscarded ==
    /\ messages' = << >>
    /\ iteration' = 0
    /\ response' = NoResponse
    /\ tool_results' = << >>
    /\ idx' = 1
    /\ log' = << >>
    /\ nextId' = 1
    /\ dispatched' = << >>
    /\ UNCHANGED <<fn, max_iterations, return_messages, pc, pending, result,
                   call, ret, rl>>

\* variant: the designer stage is skipped
P_MarketResearch_Mut ==
    /\ pl.pc = "research"
    /\ pc \in {"done", "raised"}
    /\ pl' = IF result.kind = "ret"
             THEN [pl EXCEPT !.pc = "copywriter",
                             !.trend_summary = PyStr(result.text),
                             !.image_path = PyStr(<< >>)]
             ELSE [pl EXCEPT !.pc = "raised", !.error = result.text]
    /\ AgentFrameDiscarded

\* trend_summary = market_research_agent(model=model)
P_MarketResearch ==
    /\ pl.pc = "research"
    /\ pc \in {"done", "raised"}
    /\ pl' = IF result.kind = "ret"
             THEN [pl EXCEPT !.pc = "designer",
                             !.trend_summary = PyStr(result.text)]
             ELSE [pl EXCEPT !.pc = "raised", !.error = result.text]
    /\ AgentFrameDiscarded

\* visual_result = graphic_designer_agent(...); image_path = visual_result.get("image_path", "")
P_GraphicDesigner ==
    /\ pl.pc = "designer"
    /\ \E i \in 1..Len(DesignerReplies), openai_client \in BOOLEAN, dalle \in DalleOutcomes :
          LET r == graphic_designer_agent(pl.trend_summary, DesignerReplies[i],
                                          openai_client, dalle)
              staged == [pl EXCEPT !.stages = Append(@, "graphic_designer_agent"),
                                   !.designer = [reply |-> DesignerReplies[i],
                                                 openai_client |-> openai_client,
                                                 dalle |-> dalle]]
          IN pl' = IF r.kind = "raise"
                   THEN [staged EXCEPT !.pc = "raised", !.error = r.msg]
                   ELSE [staged EXCEPT !.pc = "copywriter",
                                       !.visual = r.val,
                                       !.image_path = Get(r.val, "image_path", PyStr(<< >>))]
    /\ PipelineFrame

\* variant: the copywriter runs whenever image_path is non-empty
P_Copywriter_Mut ==
    /\ pl.pc = "copywriter"
    /\ \E exists \in BOOLEAN, readable \in BOOLEAN, i \in 1..Len(CopyReplies) :
          IF Truthy(pl.image_path)
          THEN LET r == copywriter_agent(pl.image_path, pl.trend_summary,
                                         readable, CopyReplies[i])
                   staged == [pl EXCEPT !.stages = Append(@, "copywriter_agent"),
                                        !.exists = exists]
               IN pl' = IF r.kind = "raise"
                        THEN [staged EXCEPT !.pc = "raised", !.error = r.msg]
                        ELSE [staged EXCEPT
                                !.pc = "packaging",
                                !.quote_result = r.val,
                                !.quote = Get(r.val, "quote",
                                              PyStr(<<"Experience the moment.">>)),
                                !.justification = Get(r.val, "justification",
                                              PyStr(<<"Campaign analysis.">>))]
          ELSE pl' = [pl EXCEPT
                        !.pc = "packaging",
                        !.exists = exists,
                        !.quote = PyStr(<<"Experience the trend.">>),
                        !.justification = PyStr(<<"Image unavailable for analysis.">>)]
    /\ PipelineFrame

\* if image_path and os.path.exists(image_path): quote_result = copywriter_agent(...)
\* else: quote = "Experience the trend."; justification = "Image unavailable for analysis."
P_Copywriter ==
    /\ pl.pc = "copywriter"
    /\ \E exists \in BOOLEAN, readable \in BOOLEAN, i \in 1..Len(CopyReplies) :
          IF Truthy(pl.image_path) /\ exists
          THEN LET r == copywriter_agent(pl.image_path, pl.trend_summary,
                                         readable, CopyReplies[i])
                   staged == [pl EXCEPT !.stages = Append(@, "copywriter_agent"),
                                        !.exists = exists]
               IN pl' = IF r.kind = "raise"
                        THEN [staged EXCEPT !.pc = "raised", !.error = r.msg]
                        ELSE [staged EXCEPT
                                !.pc = "packaging",
                                !.quote_result = r.val,
                                !.quote = Get(r.val, "quote",
                                              PyStr(<<"Experience the moment.">>)),
                                !.justification = Get(r.val, "justification",
                                              PyStr(<<"Campaign analysis.">>))]
          ELSE pl' = [pl EXCEPT
                        !.pc = "packaging",
                        !.exists = exists,
                        !.quote = PyStr(<<"Experience the trend.">>),
                        !.justification = PyStr(<<"Image unavailable for analysis.">>)]
    /\ PipelineFrame

\* md_path = packaging_agent(..., image_url=image_path if image_path else "image_unavailable.png", ...)
P_Packaging ==
    /\ pl.pc = "packaging"
    /\ \E i \in 1..Len(PackagingReplies), writable \in BOOLEAN :
          LET image_url == IF Truthy(pl.image_path) THEN pl.image_path
                           ELSE PyStr(<<"image_unavailable.png">>)
              r == packaging_agent(pl.trend_summary, image_url, pl.quote,
                                   pl.justification, pl.output_path,
                                   PackagingReplies[i], writable)
              staged == [pl EXCEPT !.stages = Append(@, "packaging_agent"),
                                   !.image_url = image_url]
          IN pl' = IF r.kind = "raise"
                   THEN [staged EXCEPT !.pc = "raised", !.error = r.msg]
                   ELSE [staged EXCEPT !.pc = "return", !.md_path = r.val]
    /\ PipelineFrame

\* return {"trend_summary": ..., "visual": ..., "quote": ..., "markdown_path": ...}
P_Return ==
    /\ pl.pc = "return"
    /\ pl' = [pl EXCEPT
                !.pc = "returned",
                !.returned =
                    [trend_summary |-> pl.trend_summary,
                     visual |-> pl.visual,
                     quote |-> IF pl.quote_result # PyNone THEN pl.quote_result
                               ELSE [quote |-> pl.quote,
                                     justification |-> pl.justification],
                     markdown_path |-> pl.md_path]]
    /\ PipelineFrame

InitPipe ==
    /\ fn = "market_research_agent"
    /\ max_iterations = MRA_max_iterations
    /\ return_messages = FALSE
    /\ messages = <<Message("user", Prompt)>>
    /\ iteration = 0
    /\ response = NoResponse
    /\ pc = "loop"
    /\ tool_results = << >>
    /\ idx = 1
    /\ pending = NoPending
    /\ result = NoResult
    /\ log = << >>
    /\ nextId = 1
    /\ call = NoCall
    /\ ret = NoRet
    /\ dispatched = << >>
    /\ \E output_path \in OutputPaths :
          pl = [pc |-> "research",
                output_path |-> ResolveOutputPath(output_path),
                stages |-> <<"market_research_agent">>,
                trend_summary |-> PyNone,
                visual |-> PyNone,
                image_path |-> PyNone,
                designer |-> PyNone,
                exists |-> FALSE,
                quote_result |-> PyNone,
                quote |-> PyNone,
                justification |-> PyNone,
                image_url |-> PyNone,
                md_path |-> PyNone,
                returned |-> PyNone,
                error |-> << >>]
    /\ rl = NoLab

NextPipe ==
    \/ MRA_Call
    \/ MRA_Enter
    \/ MRA_Block
    \/ MRA_AppendResults
    \/ MRA_Final
    \/ MRA_MaxIterations
    \/ P_MarketResearch
    \/ P_GraphicDesigner
    \/ P_Copywriter
    \/ P_Packaging
    \/ P_Return

SpecPipe == InitPipe /\ [][NextPipe]_vars

(* ------------------ reflection_lab (src/venv/reflection_lab.py) --------- *)
\* outcomes of "import aisuite; ai.Client()" and of "from openai import OpenAI; OpenAI(...)"
InitOutcomes == {"ok", "import raised", "constructor raised"}

\* CLIENT = None; _backend = "dummy"; try: import aisuite ... except: CLIENT = None
RL_Aisuite ==
    /\ rl.pc = "aisuite"
    /\ rl' = IF rl.aisuite = "ok"
             THEN [rl EXCEPT !.pc = "openai", !.CLIENT = "aisuite.Client",
                             !.backend = "aisuite"]
             ELSE [rl EXCEPT !.pc = "openai", !.CLIENT = "None"]
    /\ UNCHANGED <<fn, max_iterations, return_messages, messages, iteration,
                   response, pc, tool_results, idx, pending, result, log,
                   nextId, call, ret, dispatched, pl>>

\* variant: the OpenAI SDK is tried whatever aisuite gave
RL_OpenAI_Mut ==
    /\ rl.pc = "openai"
    /\ rl' = IF rl.openai = "ok"
             THEN [rl EXCEPT !.pc = "dummy", !.CLIENT = "_OpenAIChatWrapper",
                             !.backend = "openai"]
             ELSE [rl EXCEPT !.pc = "dummy", !.CLIENT = "None"]
    /\ UNCHANGED <<fn, max_iterations, return_messages, messages, iteration,
                   response, pc, tool_results, idx, pending, result, log,
                   nextId, call, ret, dispatched, pl>>

\* if CLIENT is None: try: ... CLIENT = _OpenAIChatWrapper(...); _backend = "openai"
\*                     except: CLIENT = None
RL_OpenAI ==
    /\ rl.pc = "openai"
    /\ rl' = IF rl.CLIENT = "None"
             THEN IF rl.openai = "ok"
                  THEN [rl EXCEPT !.pc = "dummy", !.CLIENT = "_OpenAIChatWrapper",
                                  !.backend = "openai"]
                  ELSE [rl EXCEPT !.pc = "dummy", !.CLIENT = "None"]
             ELSE [rl EXCEPT !.pc = "dummy"]
    /\ UNCHANGED <<fn, max_iterations, return_messages, messages, iteration,
                   response, pc, tool_results, idx, pending, result, log,
                   nextId, call, ret, dispatched, pl>>

\* if CLIENT is None: CLIENT = _DummyClient(); _backend = "dummy"
RL_Dummy ==
    /\ rl.pc = "dummy"
    /\ rl' = IF rl.CLIENT = "None"
             THEN [rl EXCEPT !.pc = "ready", !.CLIENT = "_DummyClient",
                             !.backend = "dummy"]
             ELSE [rl EXCEPT !.pc = "ready"]
    /\ UNCHANGED <<fn, max_iterations, return_messages, messages, iteration,
                   response, pc, tool_results, idx, pending, result, log,
                   nextId, call, ret, dispatched, pl>>

\* a chat completion whose choices[0].message.content is the given value
Completion(content) == [shape |-> "completion", content |-> content]

\* what the backend service does with a request
BackendOutcomes ==
    << Completion(PyStr(<<"An essay.">>)),
       Completion(PyStr(<< >>)),
       Completion(PyNone),
       [shape |-> "no choices"],
       [shape |-> "raise"] >>

\* last[:600] (the prompts of the model are shorter than 600 characters)
last600(last) == last

\* CLIENT.chat.completions.create(...)
create(client, prompt, outcome) ==
    CASE client = "aisuite.Client" ->
            IF outcome.shape = "raise" THEN Raise(APIError) ELSE Ret(outcome)
      [] client = "_OpenAIChatWrapper" ->
            IF outcome.shape = "raise"
            THEN Ret(Completion(PyStr(<<"[FALLBACK due to OpenAI error: ",
                                        "Connection error.", "]\n\n">> \o prompt)))
            ELSE Ret(outcome)
      [] OTHER ->
            Ret(Completion(PyStr(
                <<"This is a dummy offline response for local testing.\n\n",
                  "Echo of your prompt (truncated to 600 chars):\n">>
                \o last600(prompt))))

\* try: return response.choices[0].message.content  except Exception: return fallback
message_content(r, fallback) ==
    IF r.kind = "raise" THEN r
    ELSE IF r.val.shape = "completion" THEN Ret(r.val.content)
    ELSE Ret(PyStr(fallback))

\* s.strip(): blanks at the ends are dropped (a token is all blank or not)
strip(s) == SelectSeq(s, LAMBDA t : t # " ")

\* str(x) if x is not None else ""
str_or_empty(x) == IF x = PyNone THEN << >> ELSE x.s

Texts == {PyNone, PyStr(<< >>), PyStr(<<" ">>), PyStr(<<"AI">>)}

generate_draft(topic, client, outcome) ==
    LET stripped == strip(str_or_empty(topic))
        topic_text == IF stripped = << >>
                      THEN <<"The importance of clear writing in modern communication">>
                      ELSE stripped
        prompt == <<"Write a complete, well-structured essay about the following topic: ">>
                  \o topic_text \o <<"The essay should include: ...">>
    IN message_content(create(client, prompt, outcome),
         <<"Draft (fallback): An essay discussing the topic with introduction, body, and conclusion.">>)

reflect_on_draft(draft, client, outcome) ==
    LET draft_text == str_or_empty(draft)
        prompt == <<"Please provide constructive feedback on the following essay draft. ...">>
                  \o draft_text \o <<"Provide your feedback ...">>
    IN message_content(create(client, prompt, outcome),
         <<"Feedback (fallback): Improve thesis clarity, tighten topic sentences, add evidence, and refine transitions.">>)

revise_draft(original_draft, reflection, client, outcome) ==
    LET orig == str_or_empty(original_draft)
        fb == str_or_empty(reflection)
        prompt == <<"You are tasked with revising an essay based on constructive feedback. ...">>
                  \o orig \o <<"Feedback:">> \o fb \o <<"Please provide a complete revised version ...">>
    IN message_content(create(client, prompt, outcome),
         <<"Revised Essay (fallback): This revision clarifies the thesis, ...">>)

LabCall(func, args, out) ==
    /\ rl.pc = "ready"
    /\ rl' = [rl EXCEPT !.func = func, !.args = args, !.out = out]
    /\ UNCHANGED <<fn, max_iterations, return_messages, messages, iteration,
                   response, pc, tool_results, idx, pending, result, log,
                   nextId, call, ret, dispatched, pl>>

RL_generate_draft ==
    \E topic \in Texts, i \in 1..Len(BackendOutcomes) :
        LabCall("generate_draft", <<topic>>,
                generate_draft(topic, rl.CLIENT, BackendOutcomes[i]))

RL_reflect_on_draft ==
    \E draft \in Texts, i \in 1..Len(BackendOutcomes) :
        LabCall("reflect_on_draft", <<draft>>,
                reflect_on_draft(draft, rl.CLIENT, BackendOutcomes[i]))

RL_revise_draft ==
    \E original_draft \in Texts, reflection \in Texts, i \in 1..Len(BackendOutcomes) :
        LabCall("revise_draft", <<original_draft, reflection>>,
                revise_draft(original_draft, reflection, rl.CLIENT, BackendOutcomes[i]))

InitRL ==
    /\ fn = "none"
    /\ max_iterations = 0
    /\ return_messages = FALSE
    /\ messages = << >>
    /\ iteration = 0
    /\ response = NoResponse
    /\ pc = "module"
    /\ tool_results = << >>
    /\ idx = 1
    /\ pending = NoPending
    /\ result = NoResult
    /\ log = << >>
    /\ nextId = 1
    /\ call = NoCall
    /\ ret = NoRet
    /\ dispatched = << >>
    /\ pl = NoPipeline
    /\ \E a \in InitOutcomes, o \in InitOutcomes :
          rl = [pc |-> "aisuite", CLIENT |-> "None", backend |-> "dummy",
                aisuite |-> a, openai |-> o,
                func |-> "none", args |-> << >>, out |-> NoRet]

NextRL ==
    \/ RL_Aisuite
    \/ RL_OpenAI
    \/ RL_Dummy
    \/ RL_generate_draft
    \/ RL_reflect_on_draft
    \/ RL_revise_draft

SpecRL == InitRL /\ [][NextRL]_vars

(* ------- evaluate_tavily_results (src/component_level_eval.py) ---------- *)
\* longest text evaluated, in tokens
MaxTokens == 5

\* some of the preferred domains, as sequences of labels
TOP_DOMAINS == {<<"wikipedia", "org">>, <<"arxiv", "org">>, <<"mit", "edu">>}

\* a token of the text: a word, or scheme://domain/path
Token(scheme, domain, path) == [scheme |-> scheme, domain |-> domain, path |-> path]

RawTokens ==
    { Token("", << >>, ""),
      Token("https", <<"arxiv", "org">>, "/abs/1"),
      Token("HTTP", <<"en", "wikipedia", "org">>, ""),
      Token("http", <<"example", "com">>, "/a"),
      Token("https", <<"arxiv", "org", "evil", "com">>, ""),
      Token("ftp", <<"mit", "edu">>, "/f"),
      Token("http", << >>, "") }

Raws == UNION {[1..k -> RawTokens] : k \in 0..MaxTokens}

\* a threshold num/den
Ratio(num, den) == [num |-> num, den |-> den]

\* min_ratio=0.4
DefaultMinRatio == Ratio(2, 5)

MinRatios == {DefaultMinRatio, Ratio(1, 2), Ratio(0, 1)}

\* re.IGNORECASE
lower(scheme) == IF scheme = "HTTP" THEN "http" ELSE scheme

\* r'https?://[^\s\]\)>\}]+' matches the token
url_pattern(tok) ==
    /\ lower(tok.scheme) \in {"http", "https"}
    /\ tok.domain # << >> \/ tok.path # ""

\* url_pattern.findall(raw)
findall(raw) == SelectSeq(raw, url_pattern)

\* td in domain
Contains(td, domain) ==
    \E i \in 0..(Len(domain) - Len(td)) : SubSeq(domain, i + 1, i + Len(td)) = td

\* any(td in domain for td in TOP_DOMAINS), domain = url.split("/")[2]
is_preferred(top, url) == \E td \in top : Contains(td, url.domain)

\* the for loop: preferred_count after the first n urls
RECURSIVE preferred_count(_, _, _)
preferred_count(top, urls, n) ==
    IF n = 0 THEN 0
    ELSE preferred_count(top, urls, n - 1) + (IF is_preferred(top, urls[n]) THEN 1 ELSE 0)

\* variant: flag = ratio > min_ratio
ratio_passes_Mut(preferred, total, min_ratio) ==
    preferred * min_ratio.den > min_ratio.num * total

\* flag = ratio >= min_ratio with ratio = preferred_count / total (the
\* quotient of the two counts compared exactly)
ratio_passes(preferred, total, min_ratio) ==
    preferred * min_ratio.den >= min_ratio.num * total

evaluate_tavily_results(top, raw, min_ratio) ==
    LET urls == findall(raw)
        total == Len(urls)
        preferred == preferred_count(top, urls, total)
    IN IF urls = << >>
       THEN [flag |-> FALSE, report |-> "No URLs detected", total |-> 0, preferred |-> 0]
       ELSE [flag |-> ratio_passes(preferred, total, min_ratio),
             report |-> IF ratio_passes(preferred, total, min_ratio) THEN "PASS" ELSE "FAIL",
             total |-> total, preferred |-> preferred]

InitEval ==
    /\ fn = "none"
    /\ max_iterations = 0
    /\ return_messages = FALSE
    /\ messages = << >>
    /\ iteration = 0
    /\ response = NoResponse
    /\ pc = "evaluate"
    /\ tool_results = << >>
    /\ idx = 1
    /\ pending = NoPending
    /\ result = NoResult
    /\ log = << >>
    /\ nextId = 1
    /\ \E raw \in Raws, min_ratio \in MinRatios :
          call = [disp |-> "evaluate_tavily_results", raw |-> raw, min_ratio |-> min_ratio]
    /\ ret = NoRet
    /\ dispatched = << >>
    /\ pl = NoPipeline
    /\ rl = NoLab

Eval_evaluate_tavily_results ==
    /\ pc = "evaluate"
    /\ ret' = evaluate_tavily_results(TOP_DOMAINS, call.raw, call.min_ratio)
    /\ pc' = "evaluated"
    /\ UNCHANGED <<fn, max_iterations, return_messages, messages, iteration,
                   response, tool_results, idx, pending, result, log, nextId,
                   call, dispatched, pl, rl>>

NextEval == Eval_evaluate_tavily_results

SpecEval == InitEval /\ [][NextEval]_vars

(* ============================== claims ================================= *)
Sentinel == <<"Max iterations reached">>

Terminated == pc \in {"done", "raised"}

AllToolUse == \A i \in 1..Len(log) : log[i].stop = "tool_use"

IsToolResultTurn(m) == m.role = "user" /\ m.content.ty = "list"

ResultIds(m) == [j \in 1..Len(m.content.items) |-> m.content.items[j].tool_use_id]

RequestIds(m) ==
    LET reqs == SelectSeq(m.content.items, IsToolUse)
    IN [j \in 1..Len(reqs) |-> reqs[j].id]

\* C1: with max_iterations = k, when the endpoint answers every call with
\* stop_reason "tool_use", call_claude_with_tools ends by returning
\* ("Max iterations reached", messages) after exactly k model calls.
C1_ExhaustedAfterKCalls ==
    (IsCCT /\ AllToolUse /\ Terminated) =>
        /\ pc = "done"
        /\ Len(log) = max_iterations
        /\ result = ReturnPair("exhausted", Sentinel, messages)

\* C2: in find_references and market_research_agent every tool-result turn
\* immediately follows an assistant turn and its tool_use_id values are, in
\* order, the ids of that assistant turn's tool_use blocks.
C2_TurnOrdering ==
    (IsFR \/ IsMRA) =>
        \A i \in 1..Len(messages) :
            IsToolResultTurn(messages[i]) =>
                /\ i > 1
                /\ messages[i - 1].role = "assistant"
                /\ ResultIds(messages[i]) = RequestIds(messages[i - 1])

C2_Witness ==
    /\ IsFR \/ IsMRA
    /\ \E i \in 2..Len(messages) :
          /\ IsToolResultTurn(messages[i])
          /\ Len(messages[i].content.items) = 2
          /\ Len(messages[i - 1].content.items) = 3

\* C3: in call_claude_with_tools the tool-result turn that follows an
\* assistant turn with n >= 1 tool_use blocks holds n results, one for each
\* request id of that turn.
C3_OneResultPerToolUse ==
    IsCCT =>
        \A i \in 2..Len(messages) :
            IsToolResultTurn(messages[i]) =>
                /\ Len(messages[i].content.items) = NumToolUse(messages[i - 1].content.items)
                /\ {ResultIds(messages[i])[j] : j \in 1..Len(messages[i].content.items)}
                     = {RequestIds(messages[i - 1])[j] :
                            j \in 1..NumToolUse(messages[i - 1].content.items)}

KnownTo(d) ==
    CASE d = "execute_tool" ->
            {"get_current_time", "get_weather_from_ip", "write_txt_file",
             "generate_qr_code"}
      [] d = "process_tool_call" ->
            {"arxiv_search", "tavily_search", "wikipedia_search"}
      [] OTHER -> {"tavily_search_tool", "product_catalog_tool"}

\* C4: for a tool name n unknown to the dispatcher, execute_tool and
\* process_tool_call return (do not raise) the string "Unknown tool: " + n,
\* whatever the input.
C4_UnknownToolReturned ==
    (/\ pc = "dispatched"
     /\ call.disp \in {"execute_tool", "process_tool_call"}
     /\ call.name \notin KnownTo(call.disp)) =>
        ret = Ret(PyStr(<<"Unknown tool: ", call.name>>))

C4_Witness ==
    /\ pc = "dispatched"
    /\ call.disp = "execute_tool"
    /\ call.name = "tavily_search"
    /\ call.input = QueryInput
    /\ ret.kind = "ret"

\* C5: when the implementation of a known tool raises, process_tool_call
\* returns the string "Tool error (<name>): <exception message>" and does
\* not raise.
C5_ToolErrorReturned ==
    (/\ pc = "dispatched"
     /\ call.disp = "process_tool_call"
     /\ call.name \in KnownTo("process_tool_call")
     /\ research_tool(call.input, call.env).kind = "raise") =>
        /\ ret.kind = "ret"
        /\ ret.val = PyStr(<<"Tool error (", call.name, "): ">>
                           \o research_tool(call.input, call.env).msg)

C5_Witness ==
    /\ pc = "dispatched"
    /\ call.disp = "process_tool_call"
    /\ call.name = "arxiv_search"
    /\ call.input = NoInput
    /\ call.env = "raise"
    /\ ret.kind = "ret"

\* C6: in call_claude_with_tools and market_research_agent a failure raised
\* while a requested tool executes never ends the run.
C6_ToolFailureAbsorbed ==
    (IsCCT \/ IsMRA) => ~(pc = "raised" /\ result.why = "tool")

UnknownBlocks(f, content) ==
    {i \in 1..Len(content) :
        /\ IsToolUse(content[i])
        /\ content[i].name \notin
             KnownTo(CASE f = "call_claude_with_tools" -> "execute_tool"
                       [] f = "find_references" -> "process_tool_call"
                       [] OTHER -> "handle_tool_call_claude")}

SaysUnknown(s, name) ==
    \E j \in 1..(Len(s) - 1) : s[j] = "Unknown tool: " /\ s[j + 1] = name

AnsweredUnknown(block, m) ==
    /\ IsToolResultTurn(m)
    /\ \E j \in 1..Len(m.content.items) :
          /\ m.content.items[j].tool_use_id = block.id
          /\ SaysUnknown(m.content.items[j].content.s, block.name)

\* the loop is past the handling of the response it holds
Handled ==
    /\ pc \in {"loop", "next", "done", "raised"}
    /\ ~(IsFR /\ pc = "done" /\ result.why = "exhausted")

\* C7: when the model requests an unknown tool, each loop appends the
\* unknown-tool result for that request id to the conversation and goes on
\* (to a further model call while the budget lasts); the request does not
\* end the run.
C7_UnknownToolContinues ==
    (/\ response.stop_reason = "tool_use"
     /\ UnknownBlocks(fn, response.content) # {}
     /\ Handled) =>
        /\ ~(pc = "raised" /\ result.why = "tool")
        /\ \A i \in UnknownBlocks(fn, response.content) :
              AnsweredUnknown(response.content[i], messages[Len(messages)])

ServedRounds ==
    Cardinality({i \in 1..Len(log) :
                    /\ log[i].stop = "tool_use"
                    /\ IsCCT => log[i].n >= 1})

ReturnedFinalPair == pc = "done" /\ result.why = "final" /\ result.pair

\* C9: when a loop ends with a final answer, the returned conversation ends
\* with that assistant response and has 2 + 2r turns after r tool rounds.
C9_FinalAssistantAppended ==
    ReturnedFinalPair =>
        /\ result.messages[Len(result.messages)]
              = Message("assistant", PyList(response.content))
        /\ Len(result.messages) = 2 + 2 * ServedRounds

\* C9 (amended): when a loop ends with a final answer, the final assistant
\* response is not in the returned conversation: its last turn is a user
\* turn and it has 1 + 2r turns after r tool rounds.
C9_FinalAssistantNotAppended ==
    ReturnedFinalPair =>
        /\ result.messages[Len(result.messages)].role = "user"
        /\ Len(result.messages) = 1 + 2 * ServedRounds
        /\ result.messages = messages

C9_Witness ==
    /\ ReturnedFinalPair
    /\ ServedRounds = 1
    /\ Len(result.messages) = 3

RECURSIVE JoinTexts(_)
JoinTexts(blocks) ==
    IF blocks = << >> THEN << >>
    ELSE (IF "text" \in DOMAIN Head(blocks) THEN Head(blocks).text ELSE << >>)
         \o JoinTexts(Tail(blocks))

\* C10: when the response is not a tool_use response, the returned text is
\* the concatenation, in block order, of the text of the blocks that have
\* text.
C10_FinalTextConcatenation ==
    (pc = "done" /\ result.why = "final") =>
        result.text = JoinTexts(response.content)

C10_Witness ==
    /\ pc = "done" /\ result.why = "final"
    /\ Len(response.content) = 3
    /\ result.text = <<"b", "a">>
    /\ IsMRA

\* what the caller receives: the returned value without the model's label of
\* the return site
Visible(r) ==
    IF r.pair THEN [pair |-> TRUE, text |-> r.text, messages |-> r.messages]
    ELSE [pair |-> FALSE, text |-> r.text, messages |-> << >>]

\* C11: a failed model call in find_references is the last thing the run
\* does (no further model call, no further tool execution), and what the
\* caller receives differs from every successful outcome.
C11_ModelFailureDistinguishable ==
    IsFR =>
        /\ \A i \in 1..Len(log) :
              log[i].stop = "error" => (i = Len(log) /\ pc = "done")
        /\ (pc = "done" /\ result.why # "model_error") =>
              Visible(result) # Visible(FR_ModelError(APIError))

\* C12: with return_messages=True find_references and market_research_agent
\* end every run by returning a (content, messages) pair.
C12_AlwaysPair ==
    ((IsFR \/ IsMRA) /\ return_messages /\ Terminated) =>
        (result.kind = "ret" /\ result.pair)

LimitSentinels == {Sentinel, <<"[", "WARNING SIGN", " Max iterations reached]">>}

\* C13: when find_references stops at the iteration limit with the model
\* still requesting tools, the text it returns is an iteration-limit
\* sentinel, not the text of the tool-requesting response.
C13_ExplicitLimitOutcome ==
    (IsFR /\ pc = "done" /\ result.why = "exhausted") =>
        result.text \in LimitSentinels

IsPrefix(a, b) == Len(a) <= Len(b) /\ SubSeq(b, 1, Len(a)) = a

\* C14: the conversation starts as the single user turn built from the task
\* and every step leaves the previous conversation as a prefix of the new one.
C14_AppendOnly ==
    /\ messages = <<Message("user", Prompt)>>
    /\ [][IsPrefix(messages, messages')]_vars

C14_Witness ==
    /\ Len(messages) >= 5
    /\ messages[1] = Message("user", Prompt)

ToolResultTurns == {i \in 1..Len(messages) : IsToolResultTurn(messages[i])}

ReportsFailure(s) ==
    \E j \in 1..Len(s) : s[j] \in {"Unknown tool: ", "Tool error ("}

RequestOf(m, id) ==
    m.content.items[CHOOSE k \in 1..Len(m.content.items) :
                        /\ IsToolUse(m.content.items[k])
                        /\ m.content.items[k].id = id]

RawResult(f, b, env) ==
    CASE f = "call_claude_with_tools" -> execute_tool(b.name, b.input, env)
      [] f = "find_references" -> process_tool_call(b.name, b.input, env)
      [] OTHER -> handle_tool_call_claude(b.name, b.input, env)

StoredForm(v) == IF v.ty = "str" THEN v ELSE PyStr(Encode(v))

\* C16: the content of every tool_result in a conversation is a string: the
\* string the tool returned, or the JSON text of its non-string return value.
C16_ContentIsString ==
    \A i \in ToolResultTurns :
        \A j \in 1..Len(messages[i].content.items) :
            LET r == messages[i].content.items[j]
                b == RequestOf(messages[i - 1], r.tool_use_id)
            IN /\ r.content.ty = "str"
               /\ \E env \in Envs :
                     /\ RawResult(fn, b, env).kind = "ret"
                     /\ r.content = StoredForm(RawResult(fn, b, env).val)

C16_Witness ==
    /\ IsMRA
    /\ \E i \in ToolResultTurns :
          \E j \in 1..Len(messages[i].content.items) :
              /\ messages[i].content.items[j].content.ty = "str"
              /\ messages[i].content.items[j].content.s[1] = "{\""

RECURSIVE RequestIdsUpTo(_)
RequestIdsUpTo(n) ==
    IF n = 0 THEN << >>
    ELSE IF messages[n].role = "assistant"
         THEN RequestIdsUpTo(n - 1) \o RequestIds(messages[n])
         ELSE RequestIdsUpTo(n - 1)

\* ids of the tool_use blocks of the assistant turns of the conversation
AllRequestIds == RequestIdsUpTo(Len(messages))

InConversation(id) == \E k \in 1..Len(AllRequestIds) : AllRequestIds[k] = id

\* C17: in find_references and market_research_agent the tool_use blocks of
\* the assistant turns are dispatched one at a time in block order, each
\* exactly once, and all of them before the next model call or the end of
\* the run.
C17_EveryBlockDispatchedOnce ==
    (IsFR \/ IsMRA) =>
        /\ IsPrefix(dispatched, AllRequestIds)
        /\ pc \in {"loop", "next", "while", "done", "raised"} =>
              dispatched = AllRequestIds

\* C18: when a tool runs, the assistant turn that requested it is already
\* in the conversation.
C18_AssistantTurnBeforeTools ==
    \A k \in 1..Len(dispatched) : InConversation(dispatched[k])

ToolRunning ==
    \/ pc = "append"
    \/ pc = "raised" /\ result.why = "tool"

\* C18 (amended): in find_references and market_research_agent the assistant
\* turn is in the conversation before any tool it requests runs; in
\* call_claude_with_tools the tool runs first and the assistant turn is
\* appended after it returned (never, if it raised).
C18_AssistantTurnOrder ==
    /\ (IsFR \/ IsMRA) => \A k \in 1..Len(dispatched) : InConversation(dispatched[k])
    /\ IsCCT =>
          /\ \A k \in 1..(Len(dispatched) - 1) : InConversation(dispatched[k])
          /\ Len(dispatched) > 0 =>
                (InConversation(dispatched[Len(dispatched)]) <=> ~ToolRunning)

C18_Witness ==
    /\ IsCCT /\ pc = "append"
    /\ Len(dispatched) = 2
    /\ ~InConversation(dispatched[2])

StageOrders ==
    { <<"market_research_agent", "graphic_designer_agent", "copywriter_agent",
        "packaging_agent">>,
      <<"market_research_agent", "graphic_designer_agent", "packaging_agent">> }

\* C19: the stages of a pipeline run are invoked in the order market
\* research, graphic designer, (copywriter), packaging, none twice; a run
\* that returns has invoked research, designer and packaging exactly once and
\* returns a dictionary with keys trend_summary, visual, quote, markdown_path.
C19_StagesInOrder ==
    pl.pc # "none" =>
        /\ \E o \in StageOrders : IsPrefix(pl.stages, o)
        /\ pl.pc = "returned" =>
              /\ pl.stages \in StageOrders
              /\ DOMAIN pl.returned =
                    {"trend_summary", "visual", "quote", "markdown_path"}

C19_Witness ==
    /\ pl.pc = "returned"
    /\ Len(pl.stages) = 4
    /\ pl.returned.markdown_path = pl.output_path

\* C20: once reflection_lab is initialised CLIENT is not None, _backend is
\* "aisuite" if aisuite initialised, "openai" only if aisuite failed and the
\* OpenAI SDK initialised, "dummy" only if both failed, and CLIENT is the
\* client of that backend.
C20_ClientResolution ==
    rl.pc = "ready" =>
        /\ rl.CLIENT # "None"
        /\ rl.aisuite = "ok" => rl.backend = "aisuite"
        /\ rl.backend = "openai" => (rl.aisuite # "ok" /\ rl.openai = "ok")
        /\ rl.backend = "dummy" => (rl.aisuite # "ok" /\ rl.openai # "ok")
        /\ rl.backend \in {"aisuite", "openai", "dummy"}
        /\ rl.CLIENT = CASE rl.backend = "aisuite" -> "aisuite.Client"
                         [] rl.backend = "openai" -> "_OpenAIChatWrapper"
                         [] OTHER -> "_DummyClient"

C20_Witness ==
    /\ rl.pc = "ready"
    /\ rl.aisuite = "constructor raised"
    /\ rl.backend = "openai"
    /\ rl.func = "generate_draft"

\* C21: every call of generate_draft, reflect_on_draft or revise_draft
\* returns, and what it returns is a non-empty string, whatever the
\* arguments and whatever the backend does.
C21_NonEmptyString ==
    (rl.pc = "ready" /\ rl.func # "none") =>
        /\ rl.out.kind = "ret"
        /\ rl.out.val.ty = "str"
        /\ Len(rl.out.val.s) > 0

\* positions of the text that hold a URL, and those whose URL is preferred
UrlPositions(raw) == {i \in 1..Len(raw) : url_pattern(raw[i])}

PreferredPositions(raw) ==
    {i \in UrlPositions(raw) : is_preferred(TOP_DOMAINS, raw[i])}

\* C22: without a URL in the text the flag is False; with t >= 1 URLs of
\* which p are preferred the flag is True exactly when p/t >= min_ratio
\* (for the default 0.4: exactly when 10*p >= 4*t); p never exceeds t.
C22_FlagIffRatio ==
    pc = "evaluated" =>
        LET t == Cardinality(UrlPositions(call.raw))
            p == Cardinality(PreferredPositions(call.raw))
        IN /\ t = 0 => ~ret.flag
           /\ t >= 1 =>
                 /\ ret.total = t /\ ret.preferred = p
                 /\ ret.flag <=> (p * call.min_ratio.den >= call.min_ratio.num * t)
                 /\ call.min_ratio = DefaultMinRatio => (ret.flag <=> (10 * p >= 4 * t))
           /\ ret.preferred <= ret.total

\* two preferred URLs out of five, at the default threshold
C22_Witness ==
    /\ pc = "evaluated"
    /\ call.min_ratio = DefaultMinRatio
    /\ ret.total = 5 /\ ret.preferred = 2
    /\ ret.flag

\* C23: in call_claude_with_tools every tool_use response has added two
\* turns to the conversation by the time the next model call is due, so the
\* conversation of the (n+1)-th call has 1 + 2n turns and no two calls see
\* the same conversation.
C23_TwoTurnsPerToolUse ==
    (IsCCT /\ pc = "loop") => Len(messages) = 1 + 2 * Len(log)

\* the i-th response of the model is an answer that does not ask for a tool
NonToolUse(i) == log[i].stop \notin {"tool_use", "error"}

\* C24: call_claude_with_tools makes at most max_iterations model calls; a
\* response that is not a tool_use response is the last one of the run; and
\* the run returns a final answer exactly when there is such a response,
\* the answer being the joined text of that response.
C24_FinalIffNonToolUse ==
    IsCCT =>
        /\ Len(log) <= max_iterations
        /\ \A i \in 1..Len(log) : NonToolUse(i) => i = Len(log)
        /\ Terminated =>
              /\ (pc = "done" /\ result.why = "final") <=>
                    (\E i \in 1..Len(log) : NonToolUse(i))
              /\ (pc = "done" /\ result.why = "final") =>
                    result.text = ExtractText(response.content)

C24_Witness ==
    /\ IsCCT /\ pc = "done" /\ result.why = "final"
    /\ Len(log) = max_iterations
    /\ Len(log) >= 2
    /\ log[1].stop = "tool_use"

Alternates ==
    \A i \in 1..Len(messages) :
        messages[i].role = IF i % 2 = 1 THEN "user" ELSE "assistant"

\* C25: every conversation the three loops reach alternates user,
\* assistant, user, ..., has odd length and ends with a user turn.
C25_OddAlternating ==
    /\ Alternates
    /\ Len(messages) % 2 = 1
    /\ messages[Len(messages)].role = "user"

\* the assistant turn of a round is appended and its tool results are not
MidRound ==
    /\ IsFR \/ IsMRA
    /\ pc = "blocks" \/ (pc = "raised" /\ result.why = "tool")

\* C25 (amended): every conversation alternates user, assistant, ...
\* starting with user; whenever the model is called or the loop returns it
\* has 1 + 2r turns after r served rounds and ends with a user turn; while
\* find_references or market_research_agent run the tools of a round it
\* has an even number of turns and ends with the assistant turn.
C25_AlternatingOddBetweenRounds ==
    /\ Alternates
    /\ ~MidRound =>
          /\ Len(messages) = 1 + 2 * Cardinality(ToolResultTurns)
          /\ messages[Len(messages)].role = "user"
    /\ MidRound =>
          /\ Len(messages) = 2 + 2 * Cardinality(ToolResultTurns)
          /\ messages[Len(messages)].role = "assistant"

C25_Witness ==
    /\ IsFR /\ pc = "blocks"
    /\ Len(messages) = 4
    /\ messages[4].role = "assistant"

Invoked(stage) == \E k \in 1..Len(pl.stages) : pl.stages[k] = stage

\* C26: the pipeline invokes copywriter_agent exactly when image_path is
\* non-empty and names an existing file; when it is skipped the quote is
\* "Experience the trend." and the justification "Image unavailable for
\* analysis."; packaging is invoked in both cases, with the image reference
\* "image_unavailable.png" when image_path is empty; the returned quote
\* entry has the keys quote and justification.
C26_CopywriterIffImage ==
    /\ Invoked("copywriter_agent") => (Truthy(pl.image_path) /\ pl.exists)
    /\ pl.pc \in {"packaging", "return", "returned"} =>
          /\ Invoked("copywriter_agent") <=> (Truthy(pl.image_path) /\ pl.exists)
          /\ ~Invoked("copywriter_agent") =>
                /\ pl.quote = PyStr(<<"Experience the trend.">>)
                /\ pl.justification = PyStr(<<"Image unavailable for analysis.">>)
    /\ pl.pc \in {"return", "returned"} =>
          /\ Invoked("packaging_agent")
          /\ pl.image_url = IF Truthy(pl.image_path) THEN pl.image_path
                            ELSE PyStr(<<"image_unavailable.png">>)
    /\ pl.pc = "returned" =>
          {"quote", "justification"} \subseteq DOMAIN pl.returned.quote

\* the image was generated but its file is gone: the copywriter is skipped
C26_Witness ==
    /\ pl.pc = "returned"
    /\ Truthy(pl.image_path) /\ ~pl.exists
    /\ ~Invoked("copywriter_agent")
    /\ pl.returned.quote.quote = PyStr(<<"Experience the trend.">>)

UnknownAnswers(name) ==
    { Ret(PyStr(<<"Unknown tool: ", name>>)),
      Ret(PyDict1("error", PyStr(<<"Unknown tool: ", name>>))) }

\* C28: no tool name advertised to the model by a loop is answered with
\* "Unknown tool" by that loop's dispatcher: all_tools with execute_tool,
\* RESEARCH_TOOLS with process_tool_call, get_available_tools_claude() with
\* handle_tool_call_claude.
C28_AdvertisedIsDispatchable ==
    (/\ pc = "dispatched"
     /\ call.disp \in {"execute_tool", "process_tool_call", "handle_tool_call_claude"}
     /\ call.name \in Advertised(call.disp)) =>
        \A a \in UnknownAnswers(call.name) : ret # a

C28_Witness ==
    /\ pc = "dispatched"
    /\ call.disp = "handle_tool_call_claude"
    /\ call.name = "product_catalog_tool"
    /\ ret = Ret(product_catalog_tool)

\* C29: handle_tool_call returns (does not raise) for every advertised tool
\* called with arguments among the parameters its schema declares, and for
\* every function name missing from tools_map.
C29_SchemaArgumentsAccepted ==
    (pc = "dispatched" /\ call.disp = "handle_tool_call") =>
        /\ (/\ call.name \in DOMAIN get_available_tools
            /\ DOMAIN call.input \subseteq get_available_tools[call.name]) =>
              ret.kind = "ret"
        /\ call.name \notin DOMAIN get_available_tools => ret.kind = "ret"

=============================================================================
